---- MODULE Spec2Model ----
(***************************************************************************)
(* A model of pympress' user interface controller (src/pympress/ui.py):   *)
(* page navigation, the presentation timer, the three display flags and   *)
(* the page-number label/entry toggle.  Time is counted in milliseconds.  *)
(* The Document class (pympress.document) is not among the source files;  *)
(* its navigation entry points are modelled from the specification.       *)
(***************************************************************************)
EXTENDS Integers, Sequences, FiniteSets, TLC

(***************************************************************************)
(* Bounds of the model.                                                    *)
(***************************************************************************)
\* Number of pages of the larger of the two documents opened (the other has one page).
MaxPages == 3
\* Number of clock steps the model lets pass.
MaxSteps == 4
\* Clock steps per tick interval (the clock advances by TickInterval \div StepsPerTick).
StepsPerTick == 1
\* Longest text the user types into the page-number entry.
MaxLen == 1
\* Number of file paths the command line or the file dialog can name.
MaxFiles == 3
\* Largest page number whose text is formatted and parsed back.
MaxNumber == 11

\* Interval of the periodic update_time callback, in milliseconds.
TickInterval == 250

TimeStep == TickInterval \div StepsPerTick

\* time.time() when the UI is constructed (any instant after the epoch).
StartClock == TickInterval

(***************************************************************************)
(* Inputs.                                                                 *)
(***************************************************************************)
\* An optional value is a sequence of at most one element.
None == <<>>

Some(x) == <<x>>

Val(o) == o[1]

\* Characters the user can type into the entry.
Chars == {"0", "2", "/", "a"}

Digits == {"0", "1", "2", "3", "4", "5", "6", "7", "8", "9"}

Texts == UNION {[1..n -> Chars] : n \in 0..MaxLen}

\* Key names (Gdk.keyval_name) the model presses, with their modifier state.
KeyNames == {"Right", "Down", "Page_Down", "space",
             "Left", "Up", "Page_Up", "BackSpace", "Home", "End",
             "f", "F11", "Return", "l", "q", "Pause", "r", "p", "n", "x"}

\* Modifier states: none for every key, Alt and Control for the keys whose
\* binding reads the modifier state and for a menu accelerator key.
KeyStates(name) ==
    IF name \in {"Return", "l", "f"} THEN {{}, {"MOD1"}, {"CONTROL"}} ELSE {{}}

ScrollDirections == {"UP", "DOWN", "LEFT", "RIGHT"}

Windows == {"c_win", "p_win"}

Panes == {"c_da", "p_da_cur", "p_da_next"}

\* Keys released in the entry.
EntryKeys == {"Return", "KP_Return", "KP_Enter", "Escape", "x"}

EnterKeys == {"Return", "KP_Return", "KP_Enter"}

\* File paths, by number.
Paths == 1..MaxFiles

\* What the file chooser dialog's run() returns.
Responses == {"OK", "CANCEL", "DELETE_EVENT"}

\* The menu's toggle actions.
ToggleActions == {"Pause timer", "Fullscreen", "Notes mode"}

VARIABLES
    pc,           \* where the process is: "main", "Document", "Gtk.main" or "exit"
    argv,         \* sys.argv[1], None when no argument was given
    fs,           \* the paths that exist in the file system
    response,     \* what the file chooser dialog returned, None if it was not run
    file_name,    \* main.py's name: the path of the file to open
    exit_status,  \* the status the process exited with, None while it runs
    opened,       \* the path Document was constructed with, None if it was not
    timeout,      \* the GLib timeout that calls update_time is installed
    nb_pages,     \* doc.pages_number()
    cur_page,     \* doc.current_page().number()
    start_time,   \* UI.start_time
    delta,        \* UI.delta
    paused,       \* UI.paused
    fullscreen,   \* UI.fullscreen
    notes_mode,   \* UI.notes_mode
    child,        \* eb_cur.get_child(): "label_cur", "entry_cur" or "None"
    entry_text,   \* entry_cur.get_text()
    label_time,   \* what label_time shows: <<minutes, seconds, "(pause)">>, <<>> before the first update
    label_cur,    \* the text of label_cur
    label_next,   \* the text of label_next
    shown,        \* per pane: the page rendered on it, None when the pane is hidden
    cursor,       \* per pane: the cursor of its window
    active,       \* per toggle action of the menu: its checked state (get_active())
    running,      \* the GTK main loop has not been quit
    now,          \* time.time()
    since_tick,   \* clock steps since update_time last ran from the timeout
    ev,           \* history: the last event dispatched
    calls,        \* history: the methods the last event's handlers called, in order
    run_time,     \* history: wall-clock time spent Running since the last reset
    phase         \* history: position in the start / pause / resume scenario

vars == <<pc, argv, fs, response, file_name, exit_status, opened, timeout,
          nb_pages, cur_page, start_time, delta, paused, fullscreen, notes_mode,
          child, entry_text, label_time, label_cur, label_next, shown,
          cursor, active, running, now, since_tick, ev, calls, run_time, phase>>

\* The start of the process (main.py).
process == <<pc, argv, fs, response, file_name, exit_status, opened>>

\* What the page labels and the panes show.
view == <<label_cur, label_next, shown, cursor>>

(***************************************************************************)
(* The program state as one record, so that handlers compose.              *)
(***************************************************************************)
St == [cur_page |-> cur_page, start_time |-> start_time, delta |-> delta,
       paused |-> paused, fullscreen |-> fullscreen, notes_mode |-> notes_mode,
       child |-> child, entry_text |-> entry_text, label_time |-> label_time,
       label_cur |-> label_cur, label_next |-> label_next, shown |-> shown,
       cursor |-> cursor, active |-> active,
       running |-> running, calls |-> <<>>]

\* History only: the handler called method c.
Called(s, c) == [s EXCEPT !.calls = Append(s.calls, c)]

\* "%02d:%02d" % (int(delta/60), int(delta % 60)), plus " (pause)".
FormatElapsed(d, p) == <<d \div 60000, (d % 60000) \div 1000, p>>

(***************************************************************************)
(* Timer.                                                                  *)
(***************************************************************************)
\* update_time returns True, which keeps the timeout installed.
update_time_return(s) == TRUE

\* Mutant: the elapsed time is recomputed even when the timer is paused.
update_time_ignores_pause(s, t) ==
    LET d == t - s.start_time
    IN  [s EXCEPT !.delta = d, !.label_time = FormatElapsed(d, s.paused)]

update_time(s, t) ==
    LET d == IF ~s.paused THEN t - s.start_time ELSE s.delta
    IN  [s EXCEPT !.delta = d, !.label_time = FormatElapsed(d, s.paused)]

\* Mutant: resuming does not move the start timestamp.
switch_pause_keeps_start(s0, t) ==
    LET s == Called(s0, <<"switch_pause">>)
    IN  update_time([s EXCEPT !.paused = ~s.paused], t)

switch_pause(s0, t) ==
    LET s == Called(s0, <<"switch_pause">>)
    IN  update_time(IF s.paused
                    THEN [s EXCEPT !.start_time = t - s.delta, !.paused = FALSE]
                    ELSE [s EXCEPT !.paused = TRUE], t)

reset_timer(s0, t) ==
    LET s == Called(s0, <<"reset_timer">>)
    IN  update_time([s EXCEPT !.start_time = t], t)

\* Mutant: entering fullscreen also pauses the timer.
switch_fullscreen_pauses(s0) ==
    LET s == Called(s0, <<"switch_fullscreen">>)
    IN  [s EXCEPT !.fullscreen = ~s.fullscreen, !.paused = TRUE]

switch_fullscreen(s0) ==
    LET s == Called(s0, <<"switch_fullscreen">>)
    IN  [s EXCEPT !.fullscreen = ~s.fullscreen]

main_quit(s0) ==
    LET s == Called(s0, <<"main_quit">>)
    IN  [s EXCEPT !.running = FALSE]

(***************************************************************************)
(* Label / entry toggle and page change.                                   *)
(***************************************************************************)
\* eb_cur is a Gtk.EventBox, a container of at most one child; NoChild is
\* what get_child() returns when it is empty.
NoChild == "None"

\* Gtk.Container.remove: takes widget w out if it is the child.
eb_cur_remove(s, w) == IF s.child = w THEN [s EXCEPT !.child = NoChild] ELSE s

\* Gtk.Container.add: puts widget w in if the box is empty; a box that has a
\* child keeps it.
eb_cur_add(s, w) == IF s.child = NoChild THEN [s EXCEPT !.child = w] ELSE s

\* Mutant: the child is removed and the label is not put back.
restore_current_label_no_add(s0) ==
    LET s == Called(s0, <<"restore_current_label">>)
    IN  IF s.child # "label_cur" THEN eb_cur_remove(s, s.child) ELSE s

restore_current_label(s0) ==
    LET s == Called(s0, <<"restore_current_label">>)
    IN  IF s.child # "label_cur"
        THEN eb_cur_add(eb_cur_remove(s, s.child), "label_cur")
        ELSE s

\* doc.next_page() is None on the last page.
has_next_page(s) == s.cur_page + 1 < nb_pages

\* No page has been rendered on the pane yet.
NoPage == 0 - 1

\* Mutant: the next-slide pane is never hidden.
on_expose_keeps_next(s, widget) ==
    IF widget \in {"c_da", "p_da_cur"}
    THEN [s EXCEPT !.shown[widget] = Some(s.cur_page)]
    ELSE IF ~has_next_page(s)
         THEN s
         ELSE [s EXCEPT !.shown[widget] = Some(s.cur_page + 1)]

\* Called directly on a page change, or by GTK to draw a pane.
on_expose(s, widget) ==
    IF widget \in {"c_da", "p_da_cur"}
    THEN [s EXCEPT !.shown[widget] = Some(s.cur_page)]
    ELSE IF ~has_next_page(s)
         THEN [s EXCEPT !.shown[widget] = None]
         ELSE [s EXCEPT !.shown[widget] = Some(s.cur_page + 1)]

DigitChar(d) ==
    CASE d = 0 -> "0" [] d = 1 -> "1" [] d = 2 -> "2" [] d = 3 -> "3"
      [] d = 4 -> "4" [] d = 5 -> "5" [] d = 6 -> "6" [] d = 7 -> "7"
      [] d = 8 -> "8" [] OTHER -> "9"

DigitVal(c) ==
    CASE c = "0" -> 0 [] c = "1" -> 1 [] c = "2" -> 2 [] c = "3" -> 3
      [] c = "4" -> 4 [] c = "5" -> 5 [] c = "6" -> 6 [] c = "7" -> 7
      [] c = "8" -> 8 [] OTHER -> 9

\* "%d" % n for n >= 0, as a sequence of characters.
RECURSIVE FormatInt(_)
FormatInt(n) ==
    IF n < 10 THEN <<DigitChar(n)>>
    ELSE Append(FormatInt(n \div 10), DigitChar(n % 10))

\* "%d/%d" % (a, b)
FormatPair(a, b) == FormatInt(a) \o <<"/">> \o FormatInt(b)

update_page_numbers(s) ==
    restore_current_label(
        [s EXCEPT !.label_cur = FormatPair(s.cur_page + 1, nb_pages),
                  !.label_next = IF s.cur_page + 2 <= nb_pages
                                 THEN FormatPair(s.cur_page + 2, nb_pages)
                                 ELSE <<"-", "-">>])

on_page_change(s0, unpause, t) ==
    LET s  == Called(s0, IF unpause THEN <<"on_page_change(True)">>
                                   ELSE <<"on_page_change(False)">>)
        s1 == IF unpause
              THEN [s EXCEPT !.paused = FALSE,
                             !.start_time = IF s.start_time = 0 THEN t ELSE s.start_time]
              ELSE s
    IN  on_expose(on_expose(on_expose(update_page_numbers(s1), "c_da"),
                            "p_da_cur"), "p_da_next")

\* Mutant: the mode switch is a page change that unpauses the timer.
switch_mode_unpauses(s0, t) ==
    LET s == Called(s0, <<"switch_mode">>)
    IN  on_page_change([s EXCEPT !.notes_mode = ~s.notes_mode], TRUE, t)

switch_mode(s0, t) ==
    LET s == Called(s0, <<"switch_mode">>)
    IN  on_page_change([s EXCEPT !.notes_mode = ~s.notes_mode], FALSE, t)

(***************************************************************************)
(* Document navigation (pympress.document, modelled from the               *)
(* specification): each entry point clamps and notifies the UI on change.  *)
(***************************************************************************)
Clamp(i, lo, hi) == IF i < lo THEN lo ELSE IF i > hi THEN hi ELSE i

\* Mutant: the index is not clamped.
doc_move_unclamped(s, i, t) ==
    IF i # s.cur_page
    THEN on_page_change([s EXCEPT !.cur_page = i], TRUE, t)
    ELSE s

\* Mutant: the upper clamp is off by one.
doc_move_off_by_one(s, i, t) ==
    LET n == Clamp(i, 0, nb_pages)
    IN  IF n # s.cur_page
        THEN on_page_change([s EXCEPT !.cur_page = n], TRUE, t)
        ELSE s

doc_move(s, i, t) ==
    LET n == Clamp(i, 0, nb_pages - 1)
    IN  IF n # s.cur_page
        THEN on_page_change([s EXCEPT !.cur_page = n], TRUE, t)
        ELSE s

goto(s, i, t) == doc_move(Called(s, <<"goto", i>>), i, t)

goto_next(s, t) == doc_move(Called(s, <<"goto_next">>), s.cur_page + 1, t)

goto_prev(s, t) == doc_move(Called(s, <<"goto_prev">>), s.cur_page - 1, t)

goto_home(s, t) == doc_move(Called(s, <<"goto_home">>), 0, t)

goto_end(s, t) == doc_move(Called(s, <<"goto_end">>), nb_pages - 1, t)

(***************************************************************************)
(* Key presses and scroll events in the two windows.                       *)
(***************************************************************************)
\* str.upper() on a key name; only single letters meet the names compared.
Upper(name) ==
    CASE name = "f" -> "F" [] name = "l" -> "L" [] name = "q" -> "Q"
      [] name = "r" -> "R" [] name = "p" -> "P" [] name = "n" -> "N"
      [] name = "x" -> "X" [] OTHER -> name

\* Gdk.EventScroll is the event structure's class, not a Gdk.EventType value.
EventScroll == "Gdk.EventScroll"

\* Mutant: Home and End are bound the wrong way round.
on_navigation_home_end(s, widget, event, t) ==
    IF event.type = "KEY_PRESS" THEN
        LET name == event.name IN
        IF name \in {"Right", "Down", "Page_Down", "space"} THEN goto_next(s, t)
        ELSE IF name \in {"Left", "Up", "Page_Up", "BackSpace"} THEN goto_prev(s, t)
        ELSE IF name = "Home" THEN goto_end(s, t)
        ELSE IF name = "End" THEN goto_home(s, t)
        ELSE IF \/ Upper(name) \in {"F", "F11"}
                \/ (name = "Return" /\ "MOD1" \in event.state)
                \/ (Upper(name) = "L" /\ "CONTROL" \in event.state)
             THEN switch_fullscreen(s)
        ELSE IF Upper(name) = "Q" THEN main_quit(s)
        ELSE IF name = "Pause" THEN switch_pause(s, t)
        ELSE IF Upper(name) = "R" THEN reset_timer(s, t)
        ELSE IF widget = "c_win" THEN
            IF Upper(name) = "P" THEN switch_pause(s, t)
            ELSE IF Upper(name) = "N" THEN switch_mode(s, t)
            ELSE s
        ELSE s
    ELSE IF event.type = EventScroll THEN
        IF event.direction \in {"RIGHT", "LEFT"} THEN goto_next(s, t)
        ELSE goto_prev(s, t)
    ELSE s

on_navigation(s, widget, event, t) ==
    IF event.type = "KEY_PRESS" THEN
        LET name == event.name IN
        IF name \in {"Right", "Down", "Page_Down", "space"} THEN goto_next(s, t)
        ELSE IF name \in {"Left", "Up", "Page_Up", "BackSpace"} THEN goto_prev(s, t)
        ELSE IF name = "Home" THEN goto_home(s, t)
        ELSE IF name = "End" THEN goto_end(s, t)
        ELSE IF \/ Upper(name) \in {"F", "F11"}
                \/ (name = "Return" /\ "MOD1" \in event.state)
                \/ (Upper(name) = "L" /\ "CONTROL" \in event.state)
             THEN switch_fullscreen(s)
        ELSE IF Upper(name) = "Q" THEN main_quit(s)
        ELSE IF name = "Pause" THEN switch_pause(s, t)
        ELSE IF Upper(name) = "R" THEN reset_timer(s, t)
        ELSE IF widget = "c_win" THEN
            IF Upper(name) = "P" THEN switch_pause(s, t)
            ELSE IF Upper(name) = "N" THEN switch_mode(s, t)
            ELSE s
        ELSE s
    ELSE IF event.type = EventScroll THEN
        IF event.direction \in {"RIGHT", "LEFT"} THEN goto_next(s, t)
        ELSE goto_prev(s, t)
    ELSE s

\* Gtk.ToggleAction: activating a toggle action flips its checked state.
toggle(s, action) ==
    IF action \in ToggleActions
    THEN [s EXCEPT !.active[action] = ~s.active[action]]
    ELSE s

\* The Presenter window's menu actions and their callbacks.
activate_action(s0, action, t) ==
    LET s == toggle(s0, action)
    IN  CASE action = "Quit" -> main_quit(s)
          [] action = "Reset timer" -> reset_timer(s, t)
          [] action = "Pause timer" -> switch_pause(s, t)
          [] action = "Fullscreen" -> switch_fullscreen(s)
          [] action = "Notes mode" -> switch_mode(s, t)
          [] OTHER -> s

\* The accelerator of each menu action: an unmodified key.
accelerator(event) ==
    IF event.state # {} THEN "None"
    ELSE CASE event.name = "q" -> "Quit"
           [] event.name = "r" -> "Reset timer"
           [] event.name = "p" -> "Pause timer"
           [] event.name = "f" -> "Fullscreen"
           [] event.name = "n" -> "Notes mode"
           [] OTHER -> "None"

\* A key press in a window: the connected on_navigation handler runs, and in
\* the Presenter window the accelerator group then activates its action.
key_press(s, widget, event, t) ==
    LET s1 == on_navigation(s, widget, event, t)
    IN  IF widget = "p_win" /\ accelerator(event) # "None"
        THEN activate_action(s1, accelerator(event), t)
        ELSE s1

(***************************************************************************)
(* Hyperlinks.  event.x is where the pointer is on the pane, and            *)
(* get_link_at the link the pane's page has there (a Page method, modelled  *)
(* from the specification): page p has no link at x = p and elsewhere a     *)
(* link whose destination is x - 1, in range or not.                        *)
(***************************************************************************)
get_link_at(page, x) == IF x = page THEN None ELSE Some(x - 1)

\* Mutant: the next-slide pane is hit-tested against the current page.
on_link_current_page(s, widget, event, t) ==
    IF widget = "p_da_next" /\ ~has_next_page(s) THEN s
    ELSE LET page == s.cur_page
             link == get_link_at(page, event.x)
         IN  IF event.type = "BUTTON_PRESS" THEN
                 IF link # None THEN goto(s, Val(link), t) ELSE s
             ELSE IF event.type = "MOTION_NOTIFY" THEN
                 IF link # None
                 THEN [Called(s, <<"set_cursor", "HAND2">>)
                          EXCEPT !.cursor[widget] = "HAND2"]
                 ELSE [Called(s, <<"set_cursor", "default">>)
                          EXCEPT !.cursor[widget] = "default"]
             ELSE s

\* Mutant: an event of another type is taken for a button press.
on_link_any_press(s, widget, event, t) ==
    IF widget = "p_da_next" /\ ~has_next_page(s) THEN s
    ELSE LET page == IF widget = "p_da_next" THEN s.cur_page + 1 ELSE s.cur_page
             link == get_link_at(page, event.x)
         IN  IF event.type = "MOTION_NOTIFY" THEN
                 IF link # None
                 THEN [Called(s, <<"set_cursor", "HAND2">>)
                          EXCEPT !.cursor[widget] = "HAND2"]
                 ELSE [Called(s, <<"set_cursor", "default">>)
                          EXCEPT !.cursor[widget] = "default"]
             ELSE IF link # None THEN goto(s, Val(link), t) ELSE s

on_link(s, widget, event, t) ==
    IF widget = "p_da_next" /\ ~has_next_page(s) THEN s
    ELSE LET page == IF widget = "p_da_next" THEN s.cur_page + 1 ELSE s.cur_page
             link == get_link_at(page, event.x)
         IN  IF event.type = "BUTTON_PRESS" THEN
                 IF link # None THEN goto(s, Val(link), t) ELSE s
             ELSE IF event.type = "MOTION_NOTIFY" THEN
                 IF link # None
                 THEN [Called(s, <<"set_cursor", "HAND2">>)
                          EXCEPT !.cursor[widget] = "HAND2"]
                 ELSE [Called(s, <<"set_cursor", "default">>)
                          EXCEPT !.cursor[widget] = "default"]
             ELSE s

(***************************************************************************)
(* The page-number entry: formatting and parsing its text.                 *)
(***************************************************************************)
\* text.split('/')[0]
RECURSIVE SplitHead(_)
SplitHead(text) ==
    IF text = <<>> \/ Head(text) = "/" THEN <<>>
    ELSE <<Head(text)>> \o SplitHead(Tail(text))

RECURSIVE DigitsValue(_)
DigitsValue(ds) ==
    IF ds = <<>> THEN 0
    ELSE 10 * DigitsValue(SubSeq(ds, 1, Len(ds) - 1)) + DigitVal(ds[Len(ds)])

AllDigits(ds) == ds # <<>> /\ \A i \in 1..Len(ds) : ds[i] \in Digits

\* int(s): an optional sign and decimal digits; None stands for ValueError.
ParseInt(s) ==
    IF s # <<>> /\ Head(s) \in {"-", "+"}
    THEN IF AllDigits(Tail(s))
         THEN Some(IF Head(s) = "-" THEN 0 - DigitsValue(Tail(s))
                   ELSE DigitsValue(Tail(s)))
         ELSE None
    ELSE IF AllDigits(s) THEN Some(DigitsValue(s)) ELSE None

\* Mutant: the entry is filled with the 0-based index of the current page.
on_label_event_prefill_index(s, event, t) ==
    LET widget == s.child IN
    IF widget = "label_cur" /\ event.type = "BUTTON_PRESS" THEN
        eb_cur_add(eb_cur_remove(
            [Called(s, <<"set_text">>)
                EXCEPT !.entry_text = FormatPair(s.cur_page, nb_pages)],
            "label_cur"), "entry_cur")
    ELSE IF widget = "entry_cur" /\ event.type = "KEY_RELEASE" THEN
        IF event.name \in EnterKeys THEN
            LET text   == s.entry_text
                s1     == restore_current_label(Called(s, <<"get_text">>))
                parsed == ParseInt(SplitHead(text))
                n      == (IF parsed # None THEN Val(parsed) ELSE s1.cur_page + 1) - 1
            IN  IF n # s1.cur_page
                THEN goto(s1, IF n <= 0 THEN 0
                              ELSE IF n >= nb_pages THEN nb_pages - 1 ELSE n, t)
                ELSE s1
        ELSE IF event.name = "Escape" THEN restore_current_label(s)
        ELSE s
    ELSE s

\* Mutant: the page number typed is not turned into a 0-based index.
on_label_event_no_decrement(s, event, t) ==
    LET widget == s.child IN
    IF widget = "label_cur" /\ event.type = "BUTTON_PRESS" THEN
        eb_cur_add(eb_cur_remove(
            [Called(s, <<"set_text">>)
                EXCEPT !.entry_text = FormatPair(s.cur_page + 1, nb_pages)],
            "label_cur"), "entry_cur")
    ELSE IF widget = "entry_cur" /\ event.type = "KEY_RELEASE" THEN
        IF event.name \in EnterKeys THEN
            LET text   == s.entry_text
                s1     == restore_current_label(Called(s, <<"get_text">>))
                parsed == ParseInt(SplitHead(text))
                n      == (IF parsed # None THEN Val(parsed) ELSE s1.cur_page)
            IN  IF n # s1.cur_page
                THEN goto(s1, IF n <= 0 THEN 0
                              ELSE IF n >= nb_pages THEN nb_pages - 1 ELSE n, t)
                ELSE s1
        ELSE IF event.name = "Escape" THEN restore_current_label(s)
        ELSE s
    ELSE s

\* Mutant: a text that does not parse counts as page number 1.
on_label_event_default_first(s, event, t) ==
    LET widget == s.child IN
    IF widget = "label_cur" /\ event.type = "BUTTON_PRESS" THEN
        eb_cur_add(eb_cur_remove(
            [Called(s, <<"set_text">>)
                EXCEPT !.entry_text = FormatPair(s.cur_page + 1, nb_pages)],
            "label_cur"), "entry_cur")
    ELSE IF widget = "entry_cur" /\ event.type = "KEY_RELEASE" THEN
        IF event.name \in EnterKeys THEN
            LET text   == s.entry_text
                s1     == restore_current_label(Called(s, <<"get_text">>))
                parsed == ParseInt(SplitHead(text))
                n      == (IF parsed # None THEN Val(parsed) ELSE 1) - 1
            IN  IF n # s1.cur_page
                THEN goto(s1, IF n <= 0 THEN 0
                              ELSE IF n >= nb_pages THEN nb_pages - 1 ELSE n, t)
                ELSE s1
        ELSE IF event.name = "Escape" THEN restore_current_label(s)
        ELSE s
    ELSE s

\* Mutant: Escape confirms the text like Enter.
on_label_event_escape_confirms(s, event, t) ==
    LET widget == s.child IN
    IF widget = "label_cur" /\ event.type = "BUTTON_PRESS" THEN
        eb_cur_add(eb_cur_remove(
            [Called(s, <<"set_text">>)
                EXCEPT !.entry_text = FormatPair(s.cur_page + 1, nb_pages)],
            "label_cur"), "entry_cur")
    ELSE IF widget = "entry_cur" /\ event.type = "KEY_RELEASE" THEN
        IF event.name \in EnterKeys \cup {"Escape"} THEN
            LET text   == s.entry_text
                s1     == restore_current_label(Called(s, <<"get_text">>))
                parsed == ParseInt(SplitHead(text))
                n      == (IF parsed # None THEN Val(parsed) ELSE s1.cur_page + 1) - 1
            IN  IF n # s1.cur_page
                THEN goto(s1, IF n <= 0 THEN 0
                              ELSE IF n >= nb_pages THEN nb_pages - 1 ELSE n, t)
                ELSE s1
        ELSE IF event.name = "Escape" THEN restore_current_label(s)
        ELSE s
    ELSE s

on_label_event(s, event, t) ==
    LET widget == s.child IN
    IF widget = "label_cur" /\ event.type = "BUTTON_PRESS" THEN
        eb_cur_add(eb_cur_remove(
            [Called(s, <<"set_text">>)
                EXCEPT !.entry_text = FormatPair(s.cur_page + 1, nb_pages)],
            "label_cur"), "entry_cur")
    ELSE IF widget = "entry_cur" /\ event.type = "KEY_RELEASE" THEN
        IF event.name \in EnterKeys THEN
            LET text   == s.entry_text
                s1     == restore_current_label(Called(s, <<"get_text">>))
                parsed == ParseInt(SplitHead(text))
                n      == (IF parsed # None THEN Val(parsed) ELSE s1.cur_page + 1) - 1
            IN  IF n # s1.cur_page
                THEN goto(s1, IF n <= 0 THEN 0
                              ELSE IF n >= nb_pages THEN nb_pages - 1 ELSE n, t)
                ELSE s1
        ELSE IF event.name = "Escape" THEN restore_current_label(s)
        ELSE s
    ELSE s

(***************************************************************************)
(* The state machine.                                                      *)
(***************************************************************************)
\* os.path.exists
path_exists(path, files) == path \in files

\* Mutant: a path that does not exist is opened all the same.
main_ignores_missing(arg, files, resp, filename) ==
    IF arg # None
    THEN [name |-> arg, response |-> None, exit_status |-> None]
    ELSE LET n == IF resp = "OK" THEN filename ELSE None
         IN  IF resp \notin {"OK", "CANCEL"}
             THEN [name |-> None, response |-> Some(resp), exit_status |-> Some(1)]
             ELSE [name |-> n, response |-> Some(resp),
                   exit_status |-> IF n = None THEN Some(1) ELSE None]

\* main.py up to the construction of the Document: arg is sys.argv[1] if
\* given, resp and filename what the file chooser dialog returns if it runs.
\* An exception that nothing catches (ValueError on a response other than OK
\* and CANCEL) ends the process with status 1, as sys.exit(1) does.
main(arg, files, resp, filename) ==
    IF arg # None
    THEN IF ~path_exists(Val(arg), files)
         THEN [name |-> arg, response |-> None, exit_status |-> Some(1)]
         ELSE [name |-> arg, response |-> None, exit_status |-> None]
    ELSE LET n == IF resp = "OK" THEN filename ELSE None
         IN  IF resp \notin {"OK", "CANCEL"}
             THEN [name |-> None, response |-> Some(resp), exit_status |-> Some(1)]
             ELSE [name |-> n, response |-> Some(resp),
                   exit_status |-> IF n = None THEN Some(1) ELSE None]

\* Mutant: the UI always starts in Normal mode.
UI_init_normal_mode(has_notes) ==
    [cur_page |-> 0, start_time |-> 0, delta |-> 0, paused |-> TRUE,
     fullscreen |-> FALSE, notes_mode |-> FALSE,
     child |-> "label_cur", entry_text |-> <<>>, label_time |-> <<>>,
     label_cur |-> <<>>, label_next |-> <<>>,
     shown |-> [w \in Panes |-> Some(NoPage)],
     cursor |-> [w \in Panes |-> "default"],
     active |-> [a \in ToggleActions |-> a = "Pause timer"],
     running |-> TRUE,
     calls |-> <<<<"has_notes", has_notes>>,
                 <<"add_toggle_actions", TRUE, FALSE, FALSE>>>>]

\* UI.__init__ on the class's defaults; has_notes is what doc.has_notes()
\* returns.  The toggle actions "Pause timer", "Fullscreen" and "Notes mode"
\* are added with the initial states recorded in calls.
UI_init(has_notes) ==
    [cur_page |-> 0, start_time |-> 0, delta |-> 0, paused |-> TRUE,
     fullscreen |-> FALSE, notes_mode |-> has_notes,
     child |-> "label_cur", entry_text |-> <<>>, label_time |-> <<>>,
     label_cur |-> <<>>, label_next |-> <<>>,
     shown |-> [w \in Panes |-> Some(NoPage)],
     cursor |-> [w \in Panes |-> "default"],
     active |-> [a \in ToggleActions |->
                    a = "Pause timer" \/ (a = "Notes mode" /\ has_notes)],
     running |-> TRUE,
     calls |-> <<<<"has_notes", has_notes>>,
                 <<"add_toggle_actions", TRUE, FALSE, has_notes>>>>]

\* The process starts: the UI class holds its defaults, no document is open.
InitMain ==
    /\ pc = "main"
    /\ argv \in {None} \cup {Some(f) : f \in Paths}
    /\ fs \in SUBSET Paths
    /\ response = None
    /\ file_name = None
    /\ exit_status = None
    /\ opened = None
    /\ timeout = FALSE
    /\ nb_pages = 0
    /\ cur_page = 0
    /\ start_time = 0
    /\ delta = 0
    /\ paused = TRUE
    /\ fullscreen = FALSE
    /\ notes_mode = FALSE
    /\ child = "label_cur"
    /\ entry_text = <<>>
    /\ label_time = <<>>
    /\ label_cur = <<>>
    /\ label_next = <<>>
    /\ shown = [w \in Panes |-> Some(NoPage)]
    /\ cursor = [w \in Panes |-> "default"]
    /\ active = [a \in ToggleActions |-> FALSE]
    /\ running = FALSE
    /\ now = StartClock
    /\ since_tick = 0
    /\ ev = "main"
    /\ calls = <<>>
    /\ run_time = 0
    /\ phase = "initial"

\* main.py runs up to the construction of the Document, or exits.
Main ==
    /\ pc = "main"
    /\ \E resp \in Responses, filename \in {None} \cup {Some(f) : f \in Paths} :
          LET m == main(argv, fs, resp, filename)
          IN  /\ file_name' = m.name
              /\ response' = m.response
              /\ exit_status' = m.exit_status
              /\ pc' = IF m.exit_status # None THEN "exit" ELSE "Document"
    /\ UNCHANGED <<argv, fs, opened, timeout, nb_pages, cur_page, start_time,
                   delta, paused, fullscreen, notes_mode, child, entry_text,
                   label_time, running, now, since_tick, ev, calls, run_time,
                   phase>>
    /\ UNCHANGED <<view, active>>

\* Document("file://" + name): the document is opened (nb pages, with notes
\* or not), the UI is constructed on it and the main loop is entered.
OpenDocument(nb, has_notes) ==
    /\ pc = "Document"
    /\ opened' = file_name
    /\ nb_pages' = nb
    /\ LET s == UI_init(has_notes)
       IN  /\ cur_page' = s.cur_page
           /\ start_time' = s.start_time
           /\ delta' = s.delta
           /\ paused' = s.paused
           /\ fullscreen' = s.fullscreen
           /\ notes_mode' = s.notes_mode
           /\ child' = s.child
           /\ entry_text' = s.entry_text
           /\ label_time' = s.label_time
           /\ label_cur' = s.label_cur
           /\ label_next' = s.label_next
           /\ shown' = s.shown
           /\ cursor' = s.cursor
           /\ active' = s.active
           /\ running' = s.running
           /\ calls' = s.calls
    /\ timeout' = TRUE
    /\ ev' = "__init__"
    /\ pc' = "Gtk.main"
    /\ UNCHANGED <<argv, fs, response, file_name, exit_status, now, since_tick,
                   run_time, phase>>

\* The main loop has just been entered on a document named on the command line.
Init ==
    /\ pc = "Gtk.main"
    /\ argv = Some(1)
    /\ fs = {1}
    /\ response = None
    /\ file_name = Some(1)
    /\ exit_status = None
    /\ opened = Some(1)
    /\ timeout = TRUE
    /\ nb_pages \in {1, MaxPages}
    /\ \E has_notes \in BOOLEAN :
          LET s == UI_init(has_notes)
          IN  /\ cur_page = s.cur_page
              /\ start_time = s.start_time
              /\ delta = s.delta
              /\ paused = s.paused
              /\ fullscreen = s.fullscreen
              /\ notes_mode = s.notes_mode
              /\ child = s.child
              /\ entry_text = s.entry_text
              /\ label_time = s.label_time
              /\ label_cur = s.label_cur
              /\ label_next = s.label_next
              /\ shown = s.shown
              /\ cursor = s.cursor
              /\ active = s.active
              /\ running = s.running
              /\ calls = s.calls
    /\ now = StartClock
    /\ since_tick = 0
    /\ ev = "__init__"
    /\ run_time = 0
    /\ phase = "initial"

\* The main loop has just been entered on a document without notes.
InitNoNotes == Init /\ ~notes_mode

\* The calls among cs that write the timer's start_time or paused.
RECURSIVE TimerCalls(_)
TimerCalls(cs) ==
    IF cs = <<>> THEN <<>>
    ELSE IF Head(cs) \in {<<"switch_pause">>, <<"reset_timer">>,
                          <<"on_page_change(True)">>}
         THEN <<Head(cs)>> \o TimerCalls(Tail(cs))
         ELSE TimerCalls(Tail(cs))

\* History of the timer: "initial" until a method writes the timer; then the
\* scenario start ("running1"), pause by switch_pause ("paused1"), resume by
\* switch_pause ("running2"), in which page changes may occur while running.
\* Any other use of the timer leaves the scenario: "unstarted" while the timer
\* has never been unpaused, "off" afterwards.
NextPhase(s) ==
    LET tc == TimerCalls(s.calls) IN
    IF tc = <<>> THEN phase
    ELSE IF phase = "initial" /\ tc \in {<<<<"switch_pause">>>>,
                                         <<<<"on_page_change(True)">>>>}
         THEN "running1"
    ELSE IF phase \in {"initial", "unstarted"}
         THEN (IF s.paused THEN "unstarted" ELSE "off")
    ELSE IF phase = "running1" /\ tc = <<<<"switch_pause">>>> THEN "paused1"
    ELSE IF phase = "paused1" /\ tc = <<<<"switch_pause">>>> THEN "running2"
    ELSE IF phase \in {"running1", "running2"} /\ tc = <<<<"on_page_change(True)">>>>
         THEN phase
    ELSE "off"

\* The handlers of an event of kind e have run and left the program in state s.
Dispatch(e, s) ==
    /\ cur_page' = s.cur_page
    /\ start_time' = s.start_time
    /\ delta' = s.delta
    /\ paused' = s.paused
    /\ fullscreen' = s.fullscreen
    /\ notes_mode' = s.notes_mode
    /\ child' = s.child
    /\ entry_text' = s.entry_text
    /\ label_time' = s.label_time
    /\ label_cur' = s.label_cur
    /\ label_next' = s.label_next
    /\ shown' = s.shown
    /\ cursor' = s.cursor
    /\ active' = s.active
    /\ running' = s.running
    /\ calls' = s.calls
    /\ ev' = e
    /\ run_time' = IF <<"reset_timer">> \in {s.calls[i] : i \in 1..Len(s.calls)}
                   THEN 0 ELSE run_time
    /\ phase' = NextPhase(s)
    /\ UNCHANGED <<nb_pages, now, since_tick, timeout>>
    /\ UNCHANGED process

\* Wall-clock time passes; the timeout callback is due once per interval.
Advance ==
    /\ running
    /\ since_tick < StepsPerTick
    /\ now < StartClock + MaxSteps * TimeStep
    /\ now' = now + TimeStep
    /\ since_tick' = since_tick + 1
    /\ run_time' = IF paused THEN run_time ELSE run_time + TimeStep
    /\ ev' = "clock"
    /\ calls' = <<>>
    /\ UNCHANGED <<nb_pages, cur_page, start_time, delta, paused, fullscreen,
                   notes_mode, child, entry_text, label_time, running, phase>>
    /\ UNCHANGED <<view, active, process, timeout>>

\* GLib.timeout_add(250, self.update_time): the periodic tick.
Tick ==
    /\ running
    /\ timeout
    /\ since_tick = StepsPerTick
    /\ LET s == update_time(St, now)
       IN  /\ delta' = s.delta
           /\ label_time' = s.label_time
           /\ timeout' = update_time_return(St)
    /\ since_tick' = 0
    /\ ev' = "update_time"
    /\ calls' = <<>>
    /\ UNCHANGED <<nb_pages, cur_page, start_time, paused, fullscreen, notes_mode,
                   child, entry_text, running, now, run_time, phase>>
    /\ UNCHANGED <<view, active, process>>

KeyEvent(name, state) == [type |-> "KEY_PRESS", name |-> name, state |-> state]

KeyPress(widget, name, state) ==
    /\ running
    /\ Dispatch("key-press-event", key_press(St, widget, KeyEvent(name, state), now))

ScrollEvent(direction) == [type |-> "SCROLL", direction |-> direction]

Scroll(widget, direction) ==
    /\ running
    /\ Dispatch("scroll-event", on_navigation(St, widget, ScrollEvent(direction), now))

\* The user picks an item of the Presenter window's menu.
MenuActivate(action) ==
    /\ running
    /\ Dispatch("activate", activate_action(St, action, now))

\* A button press or a pointer motion on a pane, at position x.
LinkEvent(type, x) == [type |-> type, x |-> x]

Link(widget, type, x) ==
    /\ running
    /\ Dispatch("on_link", on_link(St, widget, LinkEvent(type, x), now))

\* GTK draws a pane: the "draw" signal calls on_expose.
Expose(widget) ==
    /\ running
    /\ Dispatch("draw", on_expose(St, widget))

\* An event on the page-number event box.
LabelEvent(type, name) ==
    /\ running
    /\ Dispatch("on_label_event",
                on_label_event(St, [type |-> type, name |-> name], now))

\* The user edits the text of the entry while it is shown.
EntryEdit(text) ==
    /\ running
    /\ child = "entry_cur"
    /\ entry_text' = text
    /\ ev' = "edit"
    /\ calls' = <<>>
    /\ UNCHANGED <<nb_pages, cur_page, start_time, delta, paused, fullscreen,
                   notes_mode, child, label_time, running, now, since_tick,
                   run_time, phase>>
    /\ UNCHANGED <<view, active, process, timeout>>

MenuActions == {"Quit", "Reset timer", "Pause timer", "Fullscreen", "Notes mode"}

\* A double click delivers a 2BUTTON_PRESS event to the button-press handler.
LinkPressTypes == {"BUTTON_PRESS", "2BUTTON_PRESS"}

LinkEventTypes == LinkPressTypes \cup {"MOTION_NOTIFY"}

\* Where the pointer can be on a pane.
Positions == 0..(nb_pages + 1)

LabelEventTypes == {"BUTTON_PRESS", "KEY_RELEASE", "FOCUS_CHANGE"}

\* Only a key release carries a key.
LabelKeys(type) == IF type = "KEY_RELEASE" THEN EntryKeys ELSE {"VoidSymbol"}

\* A press of key k in window w activates a toggle action of the menu.
Activates(w, k, m) == w = "p_win" /\ accelerator(KeyEvent(k, m)) \in ToggleActions

\* Every event the user can cause, but those that activate a toggle action
\* (MenuEvents has them).
Events ==
    \/ \E w \in Windows, k \in KeyNames : \E m \in KeyStates(k) :
          ~Activates(w, k, m) /\ KeyPress(w, k, m)
    \/ \E w \in Windows, d \in ScrollDirections : Scroll(w, d)
    \/ \E a \in MenuActions \ ToggleActions : MenuActivate(a)
    \/ \E w \in Panes, x \in Positions : Link(w, "BUTTON_PRESS", x)
    \/ \E ty \in LabelEventTypes : \E k \in LabelKeys(ty) : LabelEvent(ty, k)
    \/ \E text \in Texts : EntryEdit(text)

\* The keys and menu items that reach the timer or a flag: page changes, pause,
\* reset, the mode switch (a page change that does not unpause), fullscreen
\* and an unbound key.
TimerKeys == {"Right", "Left", "Pause", "r", "p", "n", "F11", "x"}

TimerActions == {"Reset timer"}

TimerEvents ==
    \/ \E w \in Windows, k \in TimerKeys : ~Activates(w, k, {}) /\ KeyPress(w, k, {})
    \/ \E a \in TimerActions : MenuActivate(a)

\* GTK draws the panes whenever it needs to.
Draws == \E w \in Panes : Expose(w)

\* The pointer moves over a pane.
Motions == \E w \in Panes, x \in Positions : Link(w, "MOTION_NOTIFY", x)

\* The events that change what the panes show: page changes by key or link,
\* the mode switch, pointer motion, and GTK drawing a pane.
ViewKeys == {"Right", "Left", "Home", "End", "n", "x"}

ViewEvents ==
    \/ \E w \in Windows, k \in ViewKeys : KeyPress(w, k, {})
    \/ \E w \in Panes, ty \in LinkPressTypes, x \in Positions : Link(w, ty, x)
    \/ Motions
    \/ Draws

\* The keys that pause, resume or unpause the timer or switch the mode, and
\* an unbound key: everything that reaches the timer but a reset.
NoResetKeys == {"Right", "Left", "Pause", "p", "n", "x"}

NoResetEvents ==
    \E w \in Windows, k \in NoResetKeys : ~Activates(w, k, {}) /\ KeyPress(w, k, {})

\* The events that reach a flag or a toggle action of the menu: the toggle
\* menu items, the keys bound to the flags in either window (in the Presenter
\* window p, n and f are also accelerators), and page changes, which unpause.
MenuKeys == {"p", "n", "f", "F11", "Pause", "Right", "Left"}

MenuEvents ==
    \/ \E a \in ToggleActions : MenuActivate(a)
    \/ \E w \in Windows, k \in MenuKeys : KeyPress(w, k, {})

Next == Advance \/ Tick \/ Events \/ Motions \/ Draws \/ MenuEvents

\* The whole controller.
Spec == Init /\ [][Next]_vars

\* The controller under the passing of time when the timer is never reset.
SpecNoReset == InitNoNotes /\ [][Advance \/ Tick \/ NoResetEvents]_vars

\* The start of the process, up to the main loop.
SpecStartup ==
    InitMain /\ [][Main \/ \E nb \in {1, MaxPages}, hn \in BOOLEAN : OpenDocument(nb, hn)]_vars

\* The controller under events that follow one another within one tick
\* interval of its construction.
SpecEvents == InitNoNotes /\ [][Events]_vars

\* The controller's flags and the menu's toggle actions.
SpecMenu == Init /\ [][MenuEvents]_vars

\* The controller's panes under page changes, mode switches and redraws.
SpecView == Init /\ [][ViewEvents]_vars

\* The controller under the passing of time and the events that reach the timer.
SpecTimer == InitNoNotes /\ [][Advance \/ Tick \/ TimerEvents]_vars

(***************************************************************************)
(* Properties.                                                             *)
(***************************************************************************)
CallSet == {calls[j] : j \in 1..Len(calls)}

NavNames == {"goto", "goto_next", "goto_prev", "goto_home", "goto_end"}

\* The Document navigation calls among cs.
NavCalls(cs) == {j \in 1..Len(cs) : cs[j][1] \in NavNames}

\* C1: in every state reached by any sequence of events (keys, scrolls, menu
\* items, link presses with any destination, quick jumps with any text) the
\* current page index is at least 0 and less than the number of pages.
C1_IndexInRange == cur_page >= 0 /\ cur_page < nb_pages

\* A link press whose destination lies past the last page has been handled.
C1_Witness ==
    /\ ev = "on_link"
    /\ calls # <<>>
    /\ Head(calls) = <<"goto", nb_pages>>
    /\ nb_pages > 1
    /\ cur_page = nb_pages - 1

\* C4: whenever a handler has called goto(i), for any integer i, the current
\* index afterwards is i clamped into 0 .. count-1.
C4_GotoClamps ==
    \A j \in 1..Len(calls) :
        (Len(calls[j]) = 2 /\ calls[j][1] = "goto")
            => cur_page = Clamp(calls[j][2], 0, nb_pages - 1)

\* goto(-1) has been called from a page other than the first.
C4_Witness ==
    /\ calls # <<>>
    /\ Head(calls) = <<"goto", 0 - 1>>
    /\ <<"on_page_change(True)">> \in CallSet
    /\ cur_page = 0

\* The current index after the handlers of a press of key name in window w.
PageAfterKey(w, name) == key_press(St, w, KeyEvent(name, {}), now).cur_page

\* C5: in every state and in either window, a key bound to goto_next pressed
\* on the last page leaves the index at count-1, a key bound to goto_prev
\* pressed on page 0 leaves it at 0, Home sets the index to 0 and End sets
\* it to count-1 from any page.
C5_KeyNavigation ==
    running => \A w \in Windows :
        /\ \A k \in {"Right", "Down", "Page_Down", "space"} :
              cur_page = nb_pages - 1 => PageAfterKey(w, k) = nb_pages - 1
        /\ \A k \in {"Left", "Up", "Page_Up", "BackSpace"} :
              cur_page = 0 => PageAfterKey(w, k) = 0
        /\ PageAfterKey(w, "Home") = 0
        /\ PageAfterKey(w, "End") = nb_pages - 1

\* goto_next has been called on the last page of a document of several pages.
C5_Witness ==
    /\ ev = "key-press-event"
    /\ calls = <<<<"goto_next">>>>
    /\ nb_pages > 1
    /\ cur_page = nb_pages - 1

\* The program state after on_label_event handles the release of key name.
AfterKeyRelease(name) ==
    on_label_event(St, [type |-> "KEY_RELEASE", name |-> name], now)

\* What int() makes of the entry's text before the first "/".
Typed == ParseInt(SplitHead(entry_text))

\* C6: whenever the entry is shown and its text starts with an integer k
\* before the first "/", releasing Enter makes the current index
\* clamp(k-1, 0, count-1) and puts the label back.
C6_QuickJumpConfirm ==
    (running /\ child = "entry_cur" /\ Typed # None) =>
        \A name \in EnterKeys :
            /\ AfterKeyRelease(name).cur_page = Clamp(Val(Typed) - 1, 0, nb_pages - 1)
            /\ AfterKeyRelease(name).child = "label_cur"

\* Enter has been released on the text "2" and the second page is shown.
C6_Witness ==
    /\ ev = "on_label_event"
    /\ calls # <<>>
    /\ Head(calls) = <<"get_text">>
    /\ <<"goto", 1>> \in CallSet
    /\ entry_text = <<"2">>
    /\ cur_page = 1
    /\ child = "label_cur"

\* C7: whenever the entry is shown and its text before the first "/" is not
\* an integer, releasing Enter calls no navigation method, leaves the current
\* index and the timer as they are, and puts the label back.
C7_QuickJumpParseFailure ==
    (running /\ child = "entry_cur" /\ Typed = None) =>
        \A name \in EnterKeys :
            /\ NavCalls(AfterKeyRelease(name).calls) = {}
            /\ AfterKeyRelease(name).cur_page = cur_page
            /\ AfterKeyRelease(name).paused = paused
            /\ AfterKeyRelease(name).start_time = start_time
            /\ AfterKeyRelease(name).delta = delta
            /\ AfterKeyRelease(name).child = "label_cur"

\* Enter has been released on the text "a", away from the first page.
C7_Witness ==
    /\ ev = "on_label_event"
    /\ calls = <<<<"get_text">>, <<"restore_current_label">>>>
    /\ entry_text = <<"a">>
    /\ cur_page > 0
    /\ child = "label_cur"

\* C8: whenever the entry is shown, whatever its text, releasing Escape puts
\* the label back and leaves the current index, the paused flag, the start
\* timestamp and the elapsed time as they are.
C8_EscapeRestores ==
    (running /\ child = "entry_cur") =>
        /\ AfterKeyRelease("Escape").child = "label_cur"
        /\ AfterKeyRelease("Escape").cur_page = cur_page
        /\ AfterKeyRelease("Escape").paused = paused
        /\ AfterKeyRelease("Escape").start_time = start_time
        /\ AfterKeyRelease("Escape").delta = delta

\* Escape has been released on a text that names another page than the current.
C8_Witness ==
    /\ ev = "on_label_event"
    /\ calls = <<<<"restore_current_label">>>>
    /\ child = "label_cur"
    /\ Typed # None
    /\ Clamp(Val(Typed) - 1, 0, nb_pages - 1) # cur_page

\* C9: whenever the entry is shown, each way of leaving it (Enter, Escape, a
\* loss of focus) puts the label back.
C9_LeavingRestoresLabel ==
    (running /\ child = "entry_cur") =>
        /\ \A name \in EnterKeys \cup {"Escape"} :
              AfterKeyRelease(name).child = "label_cur"
        /\ \A name \in EntryKeys :
              on_label_event(St, [type |-> "FOCUS_CHANGE", name |-> name],
                             now).child = "label_cur"

\* The elapsed time was computed by the handler that ran last.
ElapsedRead == ev = "update_time" \/ <<"switch_pause">> \in CallSet

\* The elapsed time is the time spent running, to within one tick interval.
ElapsedIsRunTime == delta <= run_time /\ run_time - delta <= TickInterval

\* C2: the timer is started and runs for dt, is paused with switch_pause and
\* resumed with switch_pause.  While it is paused, however long and over
\* however many ticks, the elapsed time is dt to within one tick interval;
\* after it has run for dt2 more, each tick reads dt + dt2 to within one
\* tick interval.
C2_PauseResume ==
    /\ phase = "paused1" => ElapsedIsRunTime
    /\ (phase = "running2" /\ ElapsedRead) => ElapsedIsRunTime

\* A tick after the resume: the timer has run before and after a pause in
\* which time passed, and was paused between two ticks.
C2_Witness ==
    /\ phase = "running2"
    /\ ev = "update_time"
    /\ run_time > delta
    /\ delta > 0
    /\ now - StartClock > run_time

\* C3: whenever a handler has called reset_timer, with the timer running or
\* paused, the start timestamp is the time of the call, the elapsed time and
\* the time the label shows are 0, and the paused flag is as it was.
ResetCalled == <<"reset_timer">> \in CallSet

C3_ResetZeroesElapsed ==
    [][ResetCalled' =>
          /\ start_time' = now'
          /\ delta' = 0
          /\ label_time' = <<0, 0, paused'>>
          /\ paused' = paused]_vars

\* A page change has notified the UI, to unpause the timer.
PageChanged == <<"on_page_change(True)">> \in CallSet

\* The timer has never been unpaused.
NeverStarted == phase \in {"initial", "unstarted"}

\* C10: until the timer is first unpaused it is paused with elapsed time 0;
\* a page change that notifies on_page_change(True) leaves the timer running;
\* and when that is the first start, the start timestamp is the time of the
\* page change.
C10_StartOnNavigation ==
    [][/\ NeverStarted => (paused /\ delta = 0)
       /\ PageChanged' => ~paused'
       /\ (NeverStarted /\ PageChanged') => start_time' = now']_vars

\* The parts of C10 that hold of the code.
C10_PausedUntilStarted == NeverStarted => (paused /\ delta = 0 /\ run_time = 0)

\* The panes and the next-slide label show the current state.
ViewMatches ==
    /\ shown["c_da"] = Some(cur_page)
    /\ shown["p_da_cur"] = Some(cur_page)
    /\ shown["p_da_next"] = IF cur_page = nb_pages - 1 THEN None ELSE Some(cur_page + 1)
    /\ (label_next = <<"-", "-">>) <=> (cur_page = nb_pages - 1)

\* C11: as soon as a handler that changed the page or the notes mode has
\* returned, the content pane and the presenter's current-slide pane show the
\* current page, the next-slide pane shows the page after it or is hidden
\* exactly when the current page is the last, and the next-slide label reads
\* "--" exactly then.
C11_ViewFollowsState ==
    [][(cur_page' # cur_page \/ notes_mode' # notes_mode) => ViewMatches']_vars

\* A key press has moved to the last of several pages: the next-slide pane is hidden.
C11_Witness ==
    /\ ev = "key-press-event"
    /\ PageChanged
    /\ nb_pages > 1
    /\ cur_page = nb_pages - 1
    /\ shown["p_da_next"] = None
    /\ shown["c_da"] = Some(cur_page)

\* C12: in every state, switch_mode toggles the notes-mode flag, re-renders
\* through on_page_change(False), and leaves the current index, the paused
\* flag, the start timestamp and the elapsed time as they are.
C12_SwitchModeFrame ==
    running =>
        LET s == switch_mode(St, now)
        IN  /\ s.notes_mode = ~notes_mode
            /\ <<"on_page_change(False)">> \in {s.calls[j] : j \in 1..Len(s.calls)}
            /\ s.cur_page = cur_page
            /\ s.paused = paused
            /\ s.start_time = start_time
            /\ s.delta = delta

\* The mode has been switched, after time has passed, on a timer never started.
C12_Witness ==
    /\ <<"switch_mode">> \in CallSet
    /\ phase = "initial"
    /\ now > StartClock
    /\ paused
    /\ start_time = 0
    /\ shown["c_da"] = Some(cur_page)

\* C13: in every state, switch_pause flips paused and leaves fullscreen and
\* notes_mode alone; switch_fullscreen flips fullscreen and leaves paused,
\* notes_mode and the timer alone; switch_mode flips notes_mode and leaves
\* paused and fullscreen alone; reset_timer leaves the three flags alone; and
\* none of the four changes the current index.
C13_FlagsIndependent ==
    running =>
        LET sp == switch_pause(St, now)
            sf == switch_fullscreen(St)
            sm == switch_mode(St, now)
            sr == reset_timer(St, now)
        IN  /\ sp.paused = ~paused
            /\ sp.fullscreen = fullscreen /\ sp.notes_mode = notes_mode
            /\ sp.delta = delta
            /\ sf.fullscreen = ~fullscreen
            /\ sf.paused = paused /\ sf.notes_mode = notes_mode
            /\ sf.start_time = start_time /\ sf.delta = delta
            /\ sm.notes_mode = ~notes_mode
            /\ sm.paused = paused /\ sm.fullscreen = fullscreen
            /\ sr.paused = paused /\ sr.fullscreen = fullscreen
            /\ sr.notes_mode = notes_mode
            /\ \A s \in {sp, sf, sm, sr} : s.cur_page = cur_page

\* Fullscreen has been switched on while the timer was running on a later
\* page, and the timer is still running on that page.
C13_Witness ==
    /\ calls = <<<<"switch_fullscreen">>>>
    /\ fullscreen
    /\ ~paused
    /\ delta > 0
    /\ cur_page > 0

\* The page a pane shows: the next page on the next-slide pane.
PaneHasPage(w) == w # "p_da_next" \/ cur_page + 1 < nb_pages

PanePage(w) == IF w = "p_da_next" THEN cur_page + 1 ELSE cur_page

AfterLink(w, type, x) == on_link(St, w, LinkEvent(type, x), now)

\* The handler left the current index and the timer as they are.
SameNavAndTimer(s) ==
    /\ s.cur_page = cur_page
    /\ s.paused = paused
    /\ s.start_time = start_time
    /\ s.delta = delta

C15_StartupFileSelection ==
    /\ opened # None =>
          \/ (argv # None /\ Val(argv) \in fs /\ opened = argv)
          \/ (argv = None /\ response = Some("OK") /\ file_name # None
                /\ opened = file_name)
    /\ (pc # "main" /\ argv # None /\ Val(argv) \notin fs) =>
          (pc = "exit" /\ exit_status = Some(1) /\ opened = None)
    /\ (pc # "main" /\ argv = None /\ file_name = None) =>
          (pc = "exit" /\ exit_status = Some(1) /\ opened = None)

\* Without an argument, the dialog was cancelled, and the process has exited.
C15_Witness ==
    /\ pc = "exit"
    /\ argv = None
    /\ response = Some("CANCEL")
    /\ exit_status = Some(1)
    /\ opened = None

\* C17: when the UI has just been constructed, notes_mode is what
\* doc.has_notes() returned, the "Notes mode" toggle action was added with
\* that same state ("Pause timer" active, "Fullscreen" not), and the timer
\* is paused with elapsed time 0 in a windowed Content window.
C17_InitialMode ==
    ev = "__init__" =>
        /\ Len(calls) = 2
        /\ calls[1][1] = "has_notes"
        /\ notes_mode = calls[1][2]
        /\ calls[2] = <<"add_toggle_actions", TRUE, FALSE, notes_mode>>
        /\ paused
        /\ delta = 0
        /\ ~fullscreen

\* The UI has been constructed on a document with notes chosen in the dialog.
C17_Witness ==
    /\ ev = "__init__"
    /\ pc = "Gtk.main"
    /\ response = Some("OK")
    /\ calls[1] = <<"has_notes", TRUE>>
    /\ notes_mode

\* The handler did nothing: no call, and the index, the timer and the flags
\* are as they were.
Ignored(s) ==
    /\ s.calls = <<>>
    /\ s.cur_page = cur_page
    /\ s.paused = paused
    /\ s.start_time = start_time
    /\ s.delta = delta
    /\ s.fullscreen = fullscreen
    /\ s.notes_mode = notes_mode
    /\ s.running = running

\* Event types on_navigation does not know, and key presses with no binding.
OtherTypes == {"KEY_RELEASE", "BUTTON_PRESS", "MOTION_NOTIFY"}

UnboundKeys ==
    {KeyEvent("x", {}), KeyEvent("Return", {}), KeyEvent("Return", {"CONTROL"}),
     KeyEvent("l", {}), KeyEvent("l", {"MOD1"})}

\* C16: in every state, an event of a type other than key press or scroll
\* given to on_navigation, a key press with no binding in either window, and
\* an event of a type other than button press or motion given to on_link on
\* any pane are ignored: the handler returns having changed none of the
\* current index, paused, the start timestamp, the elapsed time, fullscreen
\* and notes_mode.
C16_UnknownEventsIgnored ==
    running =>
        /\ \A w \in Windows, ty \in OtherTypes :
              Ignored(on_navigation(St, w, [type |-> ty], now))
        /\ \A w \in Windows, e \in UnboundKeys : Ignored(key_press(St, w, e, now))
        /\ \A w \in Panes, x \in Positions :
              Ignored(on_link(St, w, LinkEvent("2BUTTON_PRESS", x), now))

\* A key with no binding has been pressed while the timer ran on a later
\* page in fullscreen, some time after its start.
C16_Witness ==
    /\ ev = "key-press-event"
    /\ calls = <<>>
    /\ cur_page > 0
    /\ ~paused
    /\ delta > 0
    /\ fullscreen

\* The elapsed time is within one tick interval of the time spent running.
ElapsedNearRunTime ==
    /\ delta - run_time <= TickInterval
    /\ run_time - delta <= TickInterval

\* C18: when the timer is never reset, whatever switch_pause calls, page
\* changes, mode switches and ticks have occurred, the elapsed time a tick
\* computes while the timer runs is the wall-clock time the timer has spent
\* running since it was first started, to within one tick interval.
C18_ElapsedCountsRunning ==
    (ev = "update_time" /\ ~paused) => ElapsedNearRunTime

\* The periodic tick has just run.
Ticked == ev = "update_time"

\* C19: each tick sets the elapsed time to now minus the start timestamp when
\* the timer runs and leaves it as it is when the timer is paused; it changes
\* none of paused, the start timestamp, the current index, fullscreen and
\* notes_mode; and it returns True, so that while the main loop runs the
\* timeout is installed after any sequence of operations.
C19_PeriodicTick ==
    /\ [](running => timeout)
    /\ [][Ticked' =>
            /\ delta' = IF paused THEN delta ELSE now - start_time
            /\ UNCHANGED <<paused, start_time, cur_page, fullscreen, notes_mode>>
            /\ timeout']_vars

\* A tick has run while the timer was paused with some time elapsed, long
\* after the timer's start.
C19_Witness ==
    /\ Ticked
    /\ paused
    /\ delta > 0
    /\ now - start_time > delta
    /\ timeout

\* How many times the handlers of one event called method m.
Count(cs, m) == Cardinality({j \in 1..Len(cs) : cs[j] = <<m>>})

AfterKey(w, k) == key_press(St, w, KeyEvent(k, {}), now)

\* C20: in every state and in either window, one press of p calls
\* switch_pause once and flips paused, one press of n calls switch_mode once
\* and flips notes_mode, and one press of f calls switch_fullscreen once and
\* flips fullscreen.
C20_NoDoubleFiring ==
    running => \A w \in Windows :
        /\ Count(AfterKey(w, "p").calls, "switch_pause") = 1
        /\ AfterKey(w, "p").paused = ~paused
        /\ Count(AfterKey(w, "n").calls, "switch_mode") = 1
        /\ AfterKey(w, "n").notes_mode = ~notes_mode
        /\ Count(AfterKey(w, "f").calls, "switch_fullscreen") = 1
        /\ AfterKey(w, "f").fullscreen = ~fullscreen

\* One key press has called switch_fullscreen twice.
DoubleFired ==
    ev = "key-press-event" /\ Count(calls, "switch_fullscreen") = 2

\* The navigation method on_navigation's scroll branch names for a direction.
ScrollTarget(d) == IF d \in {"RIGHT", "LEFT"} THEN <<"goto_next">> ELSE <<"goto_prev">>

\* The program state after on_navigation handles a scroll event in window w.
AfterScroll(w, d) == on_navigation(St, w, ScrollEvent(d), now)

\* C21: in every state and in either window, a scroll event given to
\* on_navigation makes exactly one navigation call, goto_next for the
\* directions RIGHT and LEFT and goto_prev for any other direction; it is
\* never left to the branch of unknown events, which calls nothing.
C21_ScrollNavigates ==
    running => \A w \in Windows, d \in ScrollDirections :
        /\ Cardinality(NavCalls(AfterScroll(w, d).calls)) = 1
        /\ Head(AfterScroll(w, d).calls) = ScrollTarget(d)

\* A scroll event has been handled and no method was called.
ScrollIgnored == ev = "scroll-event" /\ calls = <<>>

\* The last event's handlers ran on_page_change (a page change or a mode switch).
PageChangeRan ==
    <<"on_page_change(True)">> \in CallSet \/ <<"on_page_change(False)">> \in CallSet

\* restore_current_label's effect on the program state, its history aside.
Restored(s) == [restore_current_label(s) EXCEPT !.calls = s.calls]

\* C22: in every reachable state the page-number event box has one child,
\* the label or the entry; the state after a page change or a mode switch
\* has the label as child; restore_current_label called when the label is
\* shown changes nothing, and called twice does what one call does; and the
\* entry becomes the child only by a button press on the event box while the
\* label is its child.
C22_LabelEntryInvariant ==
    /\ [](child \in {"label_cur", "entry_cur"})
    /\ [](PageChangeRan => child = "label_cur")
    /\ [](child = "label_cur" => Restored(St) = St)
    /\ [](Restored(Restored(St)) = Restored(St))
    /\ [][(child # "entry_cur" /\ child' = "entry_cur") =>
            /\ child = "label_cur"
            /\ ev' = "on_label_event"
            /\ calls' = <<<<"set_text">>>>]_vars

\* Enter has been released in the entry on the number of another page:
\* restore_current_label ran with the entry shown, then the page changed
\* and it ran again with the label shown.
C22_Witness ==
    /\ ev = "on_label_event"
    /\ Len(calls) = 5
    /\ calls[1] = <<"get_text">>
    /\ calls[2] = <<"restore_current_label">>
    /\ calls[4] = <<"on_page_change(True)">>
    /\ calls[5] = <<"restore_current_label">>
    /\ child = "label_cur"

\* The keys that edit the text of the entry.
EditingKeys == {"0", "2", "BackSpace", "space", "Left", "Right", "q", "r", "f"}

\* The handlers left the page, the timer, the flags, the main loop and the
\* event box's child as they were, and called no method.
Untouched(s) == Ignored(s) /\ s.child = child

\* C23: whenever the entry is shown, a press of an editing key (a digit,
\* BackSpace, space, Left, Right, or a letter such as q, r, f) in the
\* Presenter window calls no navigation method, does not quit, does not reset
\* the timer, does not toggle fullscreen and leaves the entry shown; releasing
\* Enter or Escape puts the label back.
C23_EditingIsolated ==
    (running /\ child = "entry_cur") =>
        /\ \A k \in EditingKeys : Untouched(key_press(St, "p_win", KeyEvent(k, {}), now))
        /\ \A name \in EnterKeys \cup {"Escape"} :
              AfterKeyRelease(name).child = "label_cur"

\* The flag each toggle action of the menu stands for.
Flag(a) ==
    CASE a = "Pause timer" -> paused
      [] a = "Fullscreen" -> fullscreen
      [] a = "Notes mode" -> notes_mode

\* C24: in every reachable state the checked state of each of the toggle
\* actions 'Pause timer', 'Fullscreen' and 'Notes mode' equals its flag
\* (paused, fullscreen, notes_mode), whichever way the flag was last changed:
\* the menu, a page change that unpauses, the Pause key, or p, n, f in the
\* Content window.
C24_TogglesInSync == \A a \in ToggleActions : active[a] = Flag(a)

\* A page change has unpaused the timer and 'Pause timer' is still checked.
PauseToggleStale ==
    /\ <<"on_page_change(True)">> \in CallSet
    /\ ~paused
    /\ active["Pause timer"]

\* The program state after a button press on the event box.
AfterClick == on_label_event(St, [type |-> "BUTTON_PRESS", name |-> "VoidSymbol"], now)

\* The program state after the click and then, the text left as it is, the
\* release of key name; calls are those of the release.
AfterClickAndRelease(name) ==
    on_label_event([AfterClick EXCEPT !.calls = <<>>],
                   [type |-> "KEY_RELEASE", name |-> name], now)

\* The text "n/m" read back: the integer before the first "/".
ReadBack(n, m) == ParseInt(SplitHead(FormatPair(n, m)))

\* C25: whenever the label is shown, a click on it shows the entry filled
\* with "current+1/total", and releasing Enter on that text calls no
\* navigation method, leaves the current index, paused, the start timestamp
\* and the elapsed time as they are and puts the label back; and the text
\* "n/m" of any page number n up to MaxNumber reads back as n.
C25_QuickJumpRoundTrip ==
    /\ \A n \in 1..MaxNumber : \A m \in {n, MaxNumber} : ReadBack(n, m) = Some(n)
    /\ (running /\ child = "label_cur") =>
          /\ AfterClick.child = "entry_cur"
          /\ AfterClick.entry_text = FormatPair(cur_page + 1, nb_pages)
          /\ \A name \in EnterKeys :
                /\ NavCalls(AfterClickAndRelease(name).calls) = {}
                /\ AfterClickAndRelease(name).cur_page = cur_page
                /\ AfterClickAndRelease(name).paused = paused
                /\ AfterClickAndRelease(name).start_time = start_time
                /\ AfterClickAndRelease(name).delta = delta
                /\ AfterClickAndRelease(name).child = "label_cur"

\* Enter has been released on the text the click put in the entry, on a
\* later page while the timer, once started, was paused.
C25_Witness ==
    /\ ev = "on_label_event"
    /\ calls = <<<<"get_text">>, <<"restore_current_label">>>>
    /\ entry_text = FormatPair(cur_page + 1, nb_pages)
    /\ cur_page > 0
    /\ paused
    /\ start_time > 0
    /\ child = "label_cur"

====
